---- MODULE Spec2Model ----
(***************************************************************************)
(* Wordle solver: feedback codec, feedback tables, game state, game engine *)
(* and the random solvers.                                                 *)
(*                                                                         *)
(* Representation.  A letter is the integer ord(c) - 97, a word is the     *)
(* tuple of its five letters.  A Python list is a TLA+ sequence, so the    *)
(* Python element list[k] is At(list, k) = list[k + 1].  None is the empty *)
(* tuple; an Optional[List] is <<>> for None and <<list>> otherwise, so    *)
(* that None and the empty list differ.                                    *)
(***************************************************************************)
EXTENDS Integers, Sequences, FiniteSets, TLC

VARIABLES
    enc_guess,              \* _encode_feedback: argument guess
    enc_answer,             \* _encode_feedback: argument answer
    enc_result,             \* _encode_feedback: returned value
    codec_pc,               \* position of the codec/table/state drivers
    dec_feedback,           \* index read from the decode table
    dec_result,             \* string read from the decode table
    word_bank,              \* GameState.word_bank
    valid_words,            \* GameState.valid_words
    word_bank_index,        \* GameState.word_bank_index
    valid_word_index,       \* GameState.valid_word_index
    feedback_encode_table,  \* GameState.feedback_encode_table
    feedback_decode_table,  \* GameState.feedback_decode_table
    cache_file,             \* the file <cache_key>.pkl of the cache folder
    history,                \* GameState.history
    answer,                 \* GameState.answer
    max_turns,              \* GameState.max_turns
    observed,               \* values read from the GameState properties
    solver_kind,            \* which Solver the engine was built with
    choose_from_answers,    \* RandomUniformSolver.choose_from_answers
    candidates,             \* RandomConsistentSolver.candidates
    processed_turns,        \* RandomConsistentSolver._processed_turns
    pc,                     \* position of the caller inside GameEngine.run
    last_call               \* outcome of the last engine call

codec_vars == <<enc_guess, enc_answer, enc_result, dec_feedback, dec_result>>
vocab_vars == <<word_bank, valid_words, word_bank_index, valid_word_index>>
table_vars == <<feedback_encode_table, feedback_decode_table>>
game_vars == <<history, answer, max_turns>>
solver_vars == <<solver_kind, choose_from_answers, candidates, processed_turns>>
vars == <<codec_vars, codec_pc, vocab_vars, table_vars, cache_file, game_vars,
          observed, solver_vars, pc, last_call>>

-----------------------------------------------------------------------------
(* Bounds of the model and constants of the program.                       *)

\* letters 0 .. AlphabetSize-1 make up the enumerated codec inputs
AlphabetSize == 2
\* max_turns ranges over 1 .. MaxTurns
MaxTurns == 3
\* vocabularies given to the table builder hold at most MaxVocabLen words
MaxVocabLen == 2
\* histories given to the GameState properties hold at most MaxHistoryLen entries
MaxHistoryLen == 4
\* a caller of the solver hands it histories of at most MaxSolverHistory entries
MaxSolverHistory == 2

NumLetters == 26
WordLength == 5
NumFeedbacks == 243
Uint8Modulus == 256
WIN_FEEDBACK == 242
_POWERS_OF_THREE == <<1, 3, 9, 27, 81>>

None == <<>>
Some(x) == <<x>>
At(list, k) == list[k + 1]
Last(list) == list[Len(list)]
Range(list) == {list[k] : k \in 1..Len(list)}

-----------------------------------------------------------------------------
(* Words.                                                                  *)

apple == <<0, 15, 15, 11, 4>>
grape == <<6, 17, 0, 15, 4>>
mango == <<12, 0, 13, 6, 14>>
speed == <<18, 15, 4, 4, 3>>
abide == <<0, 1, 8, 3, 4>>
sassy == <<18, 0, 18, 18, 24>>
silly == <<18, 8, 11, 11, 24>>
cable == <<2, 0, 1, 11, 4>>
table == <<19, 0, 1, 11, 4>>
fable == <<5, 0, 1, 11, 4>>
sable == <<18, 0, 1, 11, 4>>
maple == <<12, 0, 15, 11, 4>>

SmallWords == [1..WordLength -> 0..(AlphabetSize - 1)]
ExampleWords == {apple, grape, mango, speed, abide, sassy, silly}
CodecWords == SmallWords \cup ExampleWords

-----------------------------------------------------------------------------
(* feedback.py: _encode_feedback                                           *)

\* counts = [0] * 26; for character in answer: counts[ord(character) - 97] += 1
RECURSIVE CountLetters(_, _, _)
CountLetters(word, k, counts) ==
    IF k >= Len(word) THEN counts
    ELSE CountLetters(word, k + 1,
                      [counts EXCEPT ![At(word, k)] = @ + 1])

\* FirstPass with the loop one position short: for i in range(4)
RECURSIVE FirstPass_ShortLoop(_, _, _, _)
FirstPass_ShortLoop(guess, ans, i, st) ==
    IF i >= WordLength - 1 THEN st
    ELSE IF At(guess, i) = At(ans, i)
         THEN FirstPass_ShortLoop(guess, ans, i + 1,
                  [counts |-> [st.counts EXCEPT ![At(guess, i)] = @ - 1],
                   used   |-> [st.used EXCEPT ![i] = 2],
                   result |-> st.result + 2 * At(_POWERS_OF_THREE, i)])
         ELSE FirstPass_ShortLoop(guess, ans, i + 1, st)

\* FirstPass without "counts[index] -= 1": correct matches consume no budget
RECURSIVE FirstPass_NoDecrement(_, _, _, _)
FirstPass_NoDecrement(guess, ans, i, st) ==
    IF i >= WordLength THEN st
    ELSE IF At(guess, i) = At(ans, i)
         THEN FirstPass_NoDecrement(guess, ans, i + 1,
                  [counts |-> st.counts,
                   used   |-> [st.used EXCEPT ![i] = 2],
                   result |-> st.result + 2 * At(_POWERS_OF_THREE, i)])
         ELSE FirstPass_NoDecrement(guess, ans, i + 1, st)

\* First pass: correct position (green)
RECURSIVE FirstPass(_, _, _, _)
FirstPass(guess, ans, i, st) ==
    IF i >= WordLength THEN st
    ELSE IF At(guess, i) = At(ans, i)
         THEN FirstPass(guess, ans, i + 1,
                  [counts |-> [st.counts EXCEPT ![At(guess, i)] = @ - 1],
                   used   |-> [st.used EXCEPT ![i] = 2],
                   result |-> st.result + 2 * At(_POWERS_OF_THREE, i)])
         ELSE FirstPass(guess, ans, i + 1, st)

\* SecondPass without "counts[index] -= 1": present marks consume no budget
RECURSIVE SecondPass_NoDecrement(_, _, _, _)
SecondPass_NoDecrement(guess, ans, i, st) ==
    IF i >= WordLength THEN st
    ELSE IF st.used[i] # 0
         THEN SecondPass_NoDecrement(guess, ans, i + 1, st)
         ELSE IF st.counts[At(guess, i)] > 0
              THEN SecondPass_NoDecrement(guess, ans, i + 1,
                       [counts |-> st.counts,
                        used   |-> st.used,
                        result |-> st.result + 1 * At(_POWERS_OF_THREE, i)])
              ELSE SecondPass_NoDecrement(guess, ans, i + 1, st)

\* Second pass: present but misplaced (yellow)
RECURSIVE SecondPass(_, _, _, _)
SecondPass(guess, ans, i, st) ==
    IF i >= WordLength THEN st
    ELSE IF st.used[i] # 0
         THEN SecondPass(guess, ans, i + 1, st)
         ELSE IF st.counts[At(guess, i)] > 0
              THEN SecondPass(guess, ans, i + 1,
                       [counts |-> [st.counts EXCEPT ![At(guess, i)] = @ - 1],
                        used   |-> st.used,
                        result |-> st.result + 1 * At(_POWERS_OF_THREE, i)])
              ELSE SecondPass(guess, ans, i + 1, st)

EncodeStart(ans) ==
    [counts |-> CountLetters(ans, 0, [l \in 0..(NumLetters - 1) |-> 0]),
     used   |-> [i \in 0..(WordLength - 1) |-> 0],
     result |-> 0]

_encode_feedback(guess, ans) ==
    SecondPass(guess, ans, 0, FirstPass(guess, ans, 0, EncodeStart(ans))).result

-----------------------------------------------------------------------------
(* feedback.py: _decode_feedback, build_feedback_decode_table              *)

DigitChar(digit) == IF digit = 2 THEN "C" ELSE IF digit = 1 THEN "P" ELSE "A"

\* DecodeLoop without "feedback //= 3"
RECURSIVE DecodeLoop_NoDivide(_, _, _)
DecodeLoop_NoDivide(feedback, i, result) ==
    IF i >= WordLength THEN result
    ELSE DecodeLoop_NoDivide(feedback, i + 1,
                    [result EXCEPT ![i + 1] = DigitChar(feedback % 3)])

\* for i in range(5): digit = feedback % 3; result[i] = ...; feedback //= 3
RECURSIVE DecodeLoop(_, _, _)
DecodeLoop(feedback, i, result) ==
    IF i >= WordLength THEN result
    ELSE DecodeLoop(feedback \div 3, i + 1,
                    [result EXCEPT ![i + 1] = DigitChar(feedback % 3)])

_decode_feedback(feedback) ==
    DecodeLoop(feedback, 0, [i \in 1..WordLength |-> ""])

\* table[i] = _decode_feedback(uint8(i)) for i in range(243)
build_feedback_decode_table ==
    [i \in 0..(NumFeedbacks - 1) |-> _decode_feedback(i % Uint8Modulus)]

-----------------------------------------------------------------------------
(* feedback.py: build_feedback_encode_table                                *)

\* table = zeros((number_of_guesses, number_of_answers), dtype=uint8)
Zeros(number_of_guesses, number_of_answers) ==
    [g \in 0..(number_of_guesses - 1) |->
        [a \in 0..(number_of_answers - 1) |-> 0]]

\* StoreCell into a signed 8-bit cell, which holds 0..127 of the codes
StoreCell_SevenBits(tbl, bank, valid, guess_index, answer_index) ==
    [tbl EXCEPT ![guess_index][answer_index] =
        _encode_feedback(At(bank, guess_index), At(valid, answer_index))
            % (Uint8Modulus \div 2)]

\* StoreCell with the arguments of _encode_feedback exchanged
StoreCell_SwappedArguments(tbl, bank, valid, guess_index, answer_index) ==
    [tbl EXCEPT ![guess_index][answer_index] =
        _encode_feedback(At(valid, answer_index), At(bank, guess_index))
            % Uint8Modulus]

\* table[guess_index, answer_index] = _encode_feedback(guess, answer)
StoreCell(tbl, bank, valid, guess_index, answer_index) ==
    [tbl EXCEPT ![guess_index][answer_index] =
        _encode_feedback(At(bank, guess_index), At(valid, answer_index))
            % Uint8Modulus]

\* for guess_index, guess in enumerate(word_bank):
\*     for answer_index, answer in enumerate(valid_words): ...
RECURSIVE FillTable(_, _, _, _, _)
FillTable(tbl, bank, valid, guess_index, answer_index) ==
    IF guess_index >= Len(bank) THEN tbl
    ELSE IF answer_index >= Len(valid)
         THEN FillTable(tbl, bank, valid, guess_index + 1, 0)
         ELSE FillTable(StoreCell(tbl, bank, valid, guess_index, answer_index),
                        bank, valid, guess_index, answer_index + 1)

build_feedback_encode_table(bank, valid) ==
    FillTable(Zeros(Len(bank), Len(valid)), bank, valid, 0, 0)

-----------------------------------------------------------------------------
(* state.py: GameState properties                                          *)

turn(hist) == Len(hist)

remaining_turns(hist, limit) == limit - turn(hist)

\* terminal with "turn > max_turns" in place of "turn >= max_turns"
terminal_StrictLimit(hist, limit) ==
    IF hist = <<>> THEN FALSE
    ELSE LET last_feedback == Last(hist)[2]
             solved == last_feedback = WIN_FEEDBACK
             out_of_turns == turn(hist) > limit
         IN  solved \/ out_of_turns

\* terminal without the turn limit: "return solved"
terminal_WinOnly(hist, limit) ==
    IF hist = <<>> THEN FALSE
    ELSE LET last_feedback == Last(hist)[2]
             solved == last_feedback = WIN_FEEDBACK
         IN  solved

\* terminal without the win: "return out_of_turns"
terminal_LimitOnly(hist, limit) ==
    IF hist = <<>> THEN FALSE
    ELSE LET out_of_turns == turn(hist) >= limit
         IN  out_of_turns

\* terminal with the limit reached one turn early
terminal_EarlyLimit(hist, limit) ==
    IF hist = <<>> THEN FALSE
    ELSE LET last_feedback == Last(hist)[2]
             solved == last_feedback = WIN_FEEDBACK
             out_of_turns == turn(hist) >= limit - 1
         IN  solved \/ out_of_turns

terminal(hist, limit) ==
    IF hist = <<>> THEN FALSE
    ELSE LET last_feedback == Last(hist)[2]
             solved == last_feedback = WIN_FEEDBACK
             out_of_turns == turn(hist) >= limit
         IN  solved \/ out_of_turns

won(hist) ==
    IF hist = <<>> THEN FALSE
    ELSE LET last_feedback == Last(hist)[2]
         IN  last_feedback = WIN_FEEDBACK

-----------------------------------------------------------------------------
(* Values the variables hold while the component they belong to is not in  *)
(* use by the specification at hand.                                       *)

CodecIdle ==
    /\ enc_guess = None
    /\ enc_answer = None
    /\ enc_result = -1
    /\ dec_feedback = -1
    /\ dec_result = None

EngineIdle ==
    /\ word_bank = <<>>
    /\ valid_words = <<>>
    /\ word_bank_index = <<>>
    /\ valid_word_index = <<>>
    /\ feedback_encode_table = <<>>
    /\ feedback_decode_table = <<>>
    /\ cache_file = None
    /\ history = <<>>
    /\ answer = None
    /\ max_turns = 6
    /\ observed = None
    /\ solver_kind = "none"
    /\ choose_from_answers = FALSE
    /\ candidates = None
    /\ processed_turns = 0
    /\ pc = "idle"
    /\ last_call = None

-----------------------------------------------------------------------------
(* SpecCodec: _encode_feedback applied to every pair of codec words.       *)

InitCodec ==
    /\ codec_pc = "ready"
    /\ enc_guess \in CodecWords
    /\ enc_answer \in CodecWords
    /\ enc_result = -1
    /\ dec_feedback = -1
    /\ dec_result = None
    /\ EngineIdle

Encode ==
    /\ codec_pc = "ready"
    /\ enc_result' = _encode_feedback(enc_guess, enc_answer)
    /\ codec_pc' = "encoded"
    /\ UNCHANGED <<enc_guess, enc_answer, dec_feedback, dec_result, vocab_vars,
                   table_vars, cache_file, game_vars, observed, solver_vars, pc, last_call>>

NextCodec == Encode

SpecCodec == InitCodec /\ [][NextCodec]_vars

-----------------------------------------------------------------------------
(* SpecDecode: the decode table is built, then read at every code.         *)

InitDecode ==
    /\ codec_pc = "start"
    /\ CodecIdle
    /\ EngineIdle

BuildDecodeTable ==
    /\ codec_pc = "start"
    /\ feedback_decode_table' = build_feedback_decode_table
    /\ codec_pc' = "built"
    /\ UNCHANGED <<codec_vars, vocab_vars, feedback_encode_table, cache_file, game_vars,
                   observed, solver_vars, pc, last_call>>

\* feedback_decode_table[feedback]
DecodeLookup ==
    /\ codec_pc \in {"built", "decoded"}
    /\ \E c \in DOMAIN feedback_decode_table :
          /\ dec_feedback' = c
          /\ dec_result' = feedback_decode_table[c]
    /\ codec_pc' = "decoded"
    /\ UNCHANGED <<enc_guess, enc_answer, enc_result, vocab_vars, table_vars, cache_file,
                   game_vars, observed, solver_vars, pc, last_call>>

NextDecode == BuildDecodeTable \/ DecodeLookup

SpecDecode == InitDecode /\ [][NextDecode]_vars

-----------------------------------------------------------------------------
(* Reading a feedback code and a guess/answer pair.                        *)

Pow3(i) == At(_POWERS_OF_THREE, i)
Digit(code, i) == (code \div Pow3(i)) % 3
Positions == 0..(WordLength - 1)
Occurrences(word, l) == Cardinality({i \in Positions : At(word, i) = l})
BothHold(guess, ans, l) ==
    Cardinality({i \in Positions : At(guess, i) = l /\ At(ans, i) = l})
PresentMarks(guess, code, l) ==
    Cardinality({i \in Positions : At(guess, i) = l /\ Digit(code, i) = 1})

RECURSIVE SumDigits(_, _)
SumDigits(digits, i) ==
    IF i >= WordLength THEN 0
    ELSE digits[i] * Pow3(i) + SumDigits(digits, i + 1)

\* The two-pass reference of the feedback rule, position by position.
RECURSIVE RefDigit(_, _, _)
RefDigit(guess, ans, i) ==
    IF At(guess, i) = At(ans, i) THEN 2
    ELSE LET l == At(guess, i)
             given == Cardinality({j \in 0..(i - 1) :
                          /\ At(guess, j) = l
                          /\ At(guess, j) # At(ans, j)
                          /\ RefDigit(guess, ans, j) = 1})
             left == Occurrences(ans, l) - BothHold(guess, ans, l) - given
         IN  IF left > 0 THEN 1 ELSE 0

RefCode(guess, ans) == SumDigits([i \in Positions |-> RefDigit(guess, ans, i)], 0)

\* C1: for every pair of 5-letter words, _encode_feedback(guess, answer) is
\* 242 if and only if guess equals answer.
C1_WinIffEqual ==
    codec_pc = "encoded" =>
        ((enc_result = WIN_FEEDBACK) <=> (enc_guess = enc_answer))

C1_Witness ==
    /\ codec_pc = "encoded"
    /\ enc_guess = enc_answer
    /\ enc_guess = sassy
    /\ enc_result = WIN_FEEDBACK

\* C2: _encode_feedback equals the two-pass reference: digit i is 2 on a
\* positional match, else 1 when the answer still has an unconsumed
\* occurrence of the letter after all correct matches and the earlier present
\* marks, else 0; the code is the sum of digit[i] * 3^i.
C2_TwoPassReference ==
    codec_pc = "encoded" => enc_result = RefCode(enc_guess, enc_answer)

\* a letter of the answer is guessed twice off position and only the first
\* is marked present
C2_Witness ==
    /\ codec_pc = "encoded"
    /\ \E i, j \in Positions :
          /\ i < j
          /\ At(enc_guess, i) = At(enc_guess, j)
          /\ Digit(enc_result, i) = 1
          /\ Digit(enc_result, j) = 0
          /\ Occurrences(enc_answer, At(enc_guess, j)) > 0

\* C3: for every letter L the number of guess positions holding L that are
\* marked present is at most (occurrences of L in answer) minus (positions
\* where guess and answer both hold L); speed against abide yields exactly one
\* present 'e'; sassy against silly marks the second and third 's' absent.
C3_PresentBudget ==
    codec_pc = "encoded" =>
        /\ \A l \in 0..(NumLetters - 1) :
              PresentMarks(enc_guess, enc_result, l)
                  <= Occurrences(enc_answer, l) - BothHold(enc_guess, enc_answer, l)
        /\ (enc_guess = speed /\ enc_answer = abide) =>
              PresentMarks(enc_guess, enc_result, 4) = 1
        /\ (enc_guess = sassy /\ enc_answer = silly) =>
              /\ Digit(enc_result, 0) = 2
              /\ Digit(enc_result, 2) = 0
              /\ Digit(enc_result, 3) = 0

C3_Witness ==
    /\ codec_pc = "encoded"
    /\ enc_guess = speed
    /\ enc_answer = abide
    /\ Digit(enc_result, 2) = 1
    /\ Digit(enc_result, 3) = 0

\* C5: for every code c in 0..242 the decode table holds at c a 5-character
\* string over {A, P, C} whose character i is the i-th base-3 digit of c
\* (0->A, 1->P, 2->C, position 0 least significant); re-packing the decoded
\* digits gives back c, and distinct codes decode to distinct strings.
CharDigit(ch) == IF ch = "C" THEN 2 ELSE IF ch = "P" THEN 1 ELSE 0

Repack(pattern) == SumDigits([i \in Positions |-> CharDigit(At(pattern, i))], 0)

C5_DecodeRoundTrip ==
    /\ codec_pc \in {"built", "decoded"} =>
          /\ DOMAIN feedback_decode_table = 0..242
          /\ \A c1, c2 \in DOMAIN feedback_decode_table :
                c1 # c2 => feedback_decode_table[c1] # feedback_decode_table[c2]
    /\ codec_pc = "decoded" =>
          /\ Len(dec_result) = 5
          /\ \A i \in Positions :
                /\ At(dec_result, i) \in {"A", "P", "C"}
                /\ At(dec_result, i) = CASE Digit(dec_feedback, i) = 0 -> "A"
                                         [] Digit(dec_feedback, i) = 1 -> "P"
                                         [] Digit(dec_feedback, i) = 2 -> "C"
          /\ Repack(dec_result) = dec_feedback

C5_Witness ==
    /\ codec_pc = "decoded"
    /\ dec_feedback = 166
    /\ dec_result = <<"P", "P", "A", "A", "C">>

-----------------------------------------------------------------------------
(* SpecTable: build_feedback_encode_table applied to every pair of bounded *)
(* vocabularies.                                                           *)

SeqsUpTo(S, n) == UNION {[1..k -> S] : k \in 0..n}

TableWords == {apple, grape, sassy, silly}

InitTable ==
    /\ codec_pc = "start"
    /\ CodecIdle
    /\ word_bank \in SeqsUpTo(TableWords, MaxVocabLen)
    /\ valid_words \in SeqsUpTo(TableWords, MaxVocabLen)
    /\ word_bank_index = <<>>
    /\ valid_word_index = <<>>
    /\ feedback_encode_table = <<>>
    /\ feedback_decode_table = <<>>
    /\ cache_file = None
    /\ history = <<>>
    /\ answer = None
    /\ max_turns = 6
    /\ observed = None
    /\ solver_kind = "none"
    /\ choose_from_answers = FALSE
    /\ candidates = None
    /\ processed_turns = 0
    /\ pc = "idle"
    /\ last_call = None

BuildEncodeTable ==
    /\ codec_pc = "start"
    /\ feedback_encode_table' = build_feedback_encode_table(word_bank, valid_words)
    /\ codec_pc' = "built"
    /\ UNCHANGED <<codec_vars, vocab_vars, feedback_decode_table, cache_file, game_vars,
                   observed, solver_vars, pc, last_call>>

NextTable == BuildEncodeTable

SpecTable == InitTable /\ [][NextTable]_vars

\* C4: for every vocabulary pair and every guess index g and answer index a,
\* the cell [g][a] of the built table equals
\* _encode_feedback(word_bank[g], valid_words[a]); the table has shape
\* len(word_bank) x len(valid_words).
C4_TableIsCodec ==
    codec_pc = "built" =>
        /\ DOMAIN feedback_encode_table = 0..(Len(word_bank) - 1)
        /\ \A g \in 0..(Len(word_bank) - 1) :
              /\ DOMAIN feedback_encode_table[g] = 0..(Len(valid_words) - 1)
              /\ \A a \in 0..(Len(valid_words) - 1) :
                    feedback_encode_table[g][a]
                        = _encode_feedback(At(word_bank, g), At(valid_words, a))

C4_Witness ==
    /\ codec_pc = "built"
    /\ word_bank = <<apple, grape>>
    /\ valid_words = <<grape, apple>>
    /\ feedback_encode_table[0][0] = 166
    /\ feedback_encode_table[0][1] = WIN_FEEDBACK
    /\ feedback_encode_table[1][1] = 198

-----------------------------------------------------------------------------
(* SpecState: the GameState properties read on every bounded game state.   *)

StateCodes == {0, 166, WIN_FEEDBACK}

StateEntries == {<<apple, c>> : c \in StateCodes}

InitState ==
    /\ codec_pc = "start"
    /\ CodecIdle
    /\ word_bank = <<>>
    /\ valid_words = <<>>
    /\ word_bank_index = <<>>
    /\ valid_word_index = <<>>
    /\ feedback_encode_table = <<>>
    /\ feedback_decode_table = <<>>
    /\ cache_file = None
    /\ history \in SeqsUpTo(StateEntries, MaxHistoryLen)
    /\ answer = None
    /\ max_turns \in (-1)..MaxTurns
    /\ observed = None
    /\ solver_kind = "none"
    /\ choose_from_answers = FALSE
    /\ candidates = None
    /\ processed_turns = 0
    /\ pc = "idle"
    /\ last_call = None

ReadProperties ==
    /\ codec_pc = "start"
    /\ observed' = [turn            |-> turn(history),
                    remaining_turns |-> remaining_turns(history, max_turns),
                    terminal        |-> terminal(history, max_turns),
                    won             |-> won(history)]
    /\ codec_pc' = "read"
    /\ UNCHANGED <<codec_vars, vocab_vars, table_vars, cache_file, game_vars, solver_vars,
                   pc, last_call>>

NextState == ReadProperties

SpecState == InitState /\ [][NextState]_vars

\* C6: GameState.terminal is false whenever history is empty (for any
\* max_turns), true whenever the last history code is 242 regardless of the
\* turn count, true whenever history is non-empty and len(history) >=
\* max_turns regardless of the last code, and false in every other case.
C6_TerminalCases ==
    codec_pc = "read" =>
        /\ Len(history) = 0 => ~observed.terminal
        /\ (Len(history) > 0 /\ history[Len(history)][2] = 242)
              => observed.terminal
        /\ (Len(history) > 0 /\ Len(history) >= max_turns)
              => observed.terminal
        /\ (/\ Len(history) > 0
            /\ history[Len(history)][2] # 242
            /\ Len(history) < max_turns) => ~observed.terminal

\* the turn limit is reached exactly, without a win
C6_Witness ==
    /\ codec_pc = "read"
    /\ Len(history) = 2
    /\ max_turns = 2
    /\ history[2][2] = 166
    /\ observed.terminal
    /\ ~observed.won

-----------------------------------------------------------------------------
(* engine.py: GameEngine._build_index_dictionary                           *)

\* the dictionary of enumerate(word_list, 1)
_build_index_dictionary_FromOne(word_list) ==
    [word \in Range(word_list) |->
        CHOOSE i \in 1..Len(word_list) :
            /\ word_list[i] = word
            /\ \A j \in 1..Len(word_list) : word_list[j] = word => j <= i]

\* {word: i for i, word in enumerate(word_list)}: a later position of a
\* repeated word replaces the earlier one
_build_index_dictionary(word_list) ==
    [word \in Range(word_list) |->
        CHOOSE i \in 0..(Len(word_list) - 1) :
            /\ At(word_list, i) = word
            /\ \A j \in 0..(Len(word_list) - 1) : At(word_list, j) = word => j <= i]

-----------------------------------------------------------------------------
(* The objects handed to the solver and the engine methods.                *)

\* self.state
GameState ==
    [history               |-> history,
     answer                |-> answer,
     word_bank             |-> word_bank,
     valid_words           |-> valid_words,
     max_turns             |-> max_turns,
     word_bank_index       |-> word_bank_index,
     valid_word_index      |-> valid_word_index,
     feedback_encode_table |-> feedback_encode_table,
     feedback_decode_table |-> feedback_decode_table]

\* self.solver
Solver ==
    [kind                |-> solver_kind,
     choose_from_answers |-> choose_from_answers,
     candidates          |-> candidates,
     _processed_turns    |-> processed_turns]

NoError == ""
TerminalError == "RuntimeError: Cannot play turn: game has already terminated."
NoAnswerError == "RuntimeError: Cannot play turn: hidden answer has not been set."
EmptyListError == "ValueError: Cannot choose a target word from an empty list."
ChoiceError == "IndexError: Cannot choose from an empty sequence"
HistoryIndexError == "IndexError: list index out of range"
KeyError == "KeyError"

-----------------------------------------------------------------------------
(* random_consistent.py: RandomConsistentSolver                            *)

\* the comprehension with the comparison inverted
FilterCandidates_Inverted(words, state, guess_index, last_feedback) ==
    LET Keep(word) ==
            state.feedback_encode_table[guess_index][state.valid_word_index[word]]
                # last_feedback
    IN  SelectSeq(words, Keep)

\* the comprehension keeping, besides the matching words, the guess itself
FilterCandidates_KeepsLastGuess(words, state, guess_index, last_feedback) ==
    LET Keep(word) ==
            \/ state.feedback_encode_table[guess_index][state.valid_word_index[word]]
                  = last_feedback
            \/ /\ word \in DOMAIN state.word_bank_index
               /\ state.word_bank_index[word] = guess_index
    IN  SelectSeq(words, Keep)

\* the comprehension of _update_candidates
FilterCandidates(words, state, guess_index, last_feedback) ==
    LET Keep(word) ==
            state.feedback_encode_table[guess_index][state.valid_word_index[word]]
                = last_feedback
    IN  SelectSeq(words, Keep)

\* _update_candidates with "self._processed_turns += 2"
_update_candidates_CountsTwice(slv, state) ==
    IF Len(state.history) = slv._processed_turns
    THEN [solver |-> slv, raised |-> NoError]
    ELSE IF state.history = <<>>
    THEN [solver |-> slv, raised |-> HistoryIndexError]
    ELSE IF Last(state.history)[1] \notin DOMAIN state.word_bank_index
    THEN [solver |-> slv, raised |-> KeyError]
    ELSE [solver |->
             [slv EXCEPT
                 !.candidates =
                     Some(FilterCandidates(
                         IF slv.candidates = None
                         THEN state.valid_words ELSE slv.candidates[1],
                         state,
                         state.word_bank_index[Last(state.history)[1]],
                         Last(state.history)[2])),
                 !._processed_turns = @ + 2],
          raised |-> NoError]

\* _update_candidates folding every entry added since the last call
_update_candidates_AllNewEntries(slv, state) ==
    IF Len(state.history) = slv._processed_turns
    THEN [solver |-> slv, raised |-> NoError]
    ELSE IF state.history = <<>>
    THEN [solver |-> slv, raised |-> HistoryIndexError]
    ELSE IF \E i \in DOMAIN state.history :
               state.history[i][1] \notin DOMAIN state.word_bank_index
    THEN [solver |-> slv, raised |-> KeyError]
    ELSE LET words == IF slv.candidates = None
                      THEN state.valid_words ELSE slv.candidates[1]
             Keep(word) ==
                 \A i \in (slv._processed_turns + 1)..Len(state.history) :
                     state.feedback_encode_table
                         [state.word_bank_index[state.history[i][1]]]
                         [state.valid_word_index[word]] = state.history[i][2]
         IN  [solver |->
                 [slv EXCEPT !.candidates = Some(SelectSeq(words, Keep)),
                             !._processed_turns = Len(state.history)],
              raised |-> NoError]

\* _update_candidates filtering state.valid_words in place of self.candidates
_update_candidates_FromValidWords(slv, state) ==
    IF Len(state.history) = slv._processed_turns
    THEN [solver |-> slv, raised |-> NoError]
    ELSE IF state.history = <<>>
    THEN [solver |-> slv, raised |-> HistoryIndexError]
    ELSE IF Last(state.history)[1] \notin DOMAIN state.word_bank_index
    THEN [solver |-> slv, raised |-> KeyError]
    ELSE [solver |->
             [slv EXCEPT
                 !.candidates =
                     Some(FilterCandidates(
                         state.valid_words, state,
                         state.word_bank_index[Last(state.history)[1]],
                         Last(state.history)[2])),
                 !._processed_turns = @ + 1],
          raised |-> NoError]

\* Returns the solver after the call and the exception the call raised.
_update_candidates(slv, state) ==
    IF Len(state.history) = slv._processed_turns
    THEN [solver |-> slv, raised |-> NoError]
    ELSE LET initialized ==
                 IF slv.candidates = None
                 THEN [slv EXCEPT !.candidates = Some(state.valid_words)]
                 ELSE slv
         IN  IF state.history = <<>>
             THEN [solver |-> initialized, raised |-> HistoryIndexError]
             ELSE LET last_guess == Last(state.history)[1]
                      last_feedback == Last(state.history)[2]
                  IN  IF last_guess \notin DOMAIN state.word_bank_index
                      THEN [solver |-> initialized, raised |-> KeyError]
                      ELSE IF \E word \in Range(initialized.candidates[1]) :
                                  word \notin DOMAIN state.valid_word_index
                      THEN [solver |-> initialized, raised |-> KeyError]
                      ELSE [solver |->
                               [initialized EXCEPT
                                   !.candidates =
                                       Some(FilterCandidates(
                                           initialized.candidates[1], state,
                                           state.word_bank_index[last_guess],
                                           last_feedback)),
                                   !._processed_turns = @ + 1],
                            raised |-> NoError]

\* random.choice(sequence): every element is a possible result
Choice(sequence, slv) ==
    IF sequence = <<>>
    THEN {[guess |-> None, solver |-> slv, raised |-> ChoiceError]}
    ELSE {[guess |-> sequence[k], solver |-> slv, raised |-> NoError] :
             k \in 1..Len(sequence)}

\* guess drawing from state.valid_words in place of self.candidates
RandomConsistentSolver_guess_FromValidWords(slv, state) ==
    LET updated == _update_candidates(slv, state)
    IN  IF updated.raised # NoError
        THEN {[guess |-> None, solver |-> updated.solver, raised |-> updated.raised]}
        ELSE LET ready ==
                     IF updated.solver.candidates = None
                     THEN [updated.solver EXCEPT
                              !.candidates = Some(state.valid_words)]
                     ELSE updated.solver
             IN  Choice(state.valid_words, ready)

\* RandomConsistentSolver.guess: the possible results of one call
RandomConsistentSolver_guess(slv, state) ==
    LET updated == _update_candidates(slv, state)
    IN  IF updated.raised # NoError
        THEN {[guess |-> None, solver |-> updated.solver, raised |-> updated.raised]}
        ELSE LET ready ==
                     IF updated.solver.candidates = None
                     THEN [updated.solver EXCEPT
                              !.candidates = Some(state.valid_words)]
                     ELSE updated.solver
             IN  Choice(ready.candidates[1], ready)

\* reset that clears the counter and keeps the candidates
RandomConsistentSolver_reset_KeepCandidates(slv) ==
    [slv EXCEPT !._processed_turns = 0]

RandomConsistentSolver_reset(slv) ==
    [slv EXCEPT !.candidates = None, !._processed_turns = 0]

-----------------------------------------------------------------------------
(* random_uniform.py: RandomUniformSolver                                  *)

\* guess that returns state.answer once it is set
RandomUniformSolver_guess_PeekAnswer(slv, state) ==
    IF state.answer # None
    THEN {[guess |-> state.answer, solver |-> slv, raised |-> NoError]}
    ELSE IF slv.choose_from_answers
         THEN Choice(state.valid_words, slv)
         ELSE Choice(state.word_bank, slv)

RandomUniformSolver_guess(slv, state) ==
    IF slv.choose_from_answers
    THEN Choice(state.valid_words, slv)
    ELSE Choice(state.word_bank, slv)

RandomUniformSolver_reset(slv) == slv

\* self.solver.guess(self.state) / self.solver.reset()
Solver_guess(slv, state) ==
    IF slv.kind = "RandomConsistentSolver"
    THEN RandomConsistentSolver_guess(slv, state)
    ELSE RandomUniformSolver_guess(slv, state)

Solver_reset(slv) ==
    IF slv.kind = "RandomConsistentSolver"
    THEN RandomConsistentSolver_reset(slv)
    ELSE RandomUniformSolver_reset(slv)

-----------------------------------------------------------------------------
(* oracle/impl/random_uniform.py: RandomUniformOracle.choose               *)

\* choose without the "if not valid_words" guard
RandomUniformOracle_choose_NoEmptyCheck(words) ==
    IF words = <<>>
    THEN {[word |-> None, raised |-> ChoiceError]}
    ELSE {[word |-> words[k], raised |-> NoError] : k \in 1..Len(words)}

RandomUniformOracle_choose(words) ==
    IF words = <<>>
    THEN {[word |-> None, raised |-> EmptyListError]}
    ELSE {[word |-> words[k], raised |-> NoError] : k \in 1..Len(words)}

-----------------------------------------------------------------------------
(* engine.py: GameEngine.play_turn, GameEngine.reset                       *)

\* The result of a call: the history and the solver it leaves, the exception
\* it raised, whether it called solver.guess, and the value it returned.
Failure(state, slv, error, asked) ==
    [history |-> state.history, solver |-> slv, raised |-> error,
     consulted |-> asked, ret |-> None]

\* lines 87-99 with answer_index read from word_bank_index
LookupAndAppend_AnswerIndexFromWordBank(state, slv, guess) ==
    IF guess \notin DOMAIN state.word_bank_index
    THEN Failure(state, slv, KeyError, TRUE)
    ELSE IF state.answer \notin DOMAIN state.word_bank_index
    THEN Failure(state, slv, KeyError, TRUE)
    ELSE LET guess_index == state.word_bank_index[guess]
             answer_index == state.word_bank_index[state.answer]
         IN  IF answer_index \notin DOMAIN state.feedback_encode_table[guess_index]
             THEN Failure(state, slv, HistoryIndexError, TRUE)
             ELSE LET feedback ==
                          state.feedback_encode_table[guess_index][answer_index]
                      appended == Append(state.history, <<guess, feedback>>)
                  IN  [history |-> appended, solver |-> slv, raised |-> NoError,
                       consulted |-> TRUE, ret |-> <<guess, feedback>>]

\* lines 87-99 reading the table column of the first valid word
LookupAndAppend_FirstAnswerColumn(state, slv, guess) ==
    IF guess \notin DOMAIN state.word_bank_index
    THEN Failure(state, slv, KeyError, TRUE)
    ELSE IF state.answer \notin DOMAIN state.valid_word_index
    THEN Failure(state, slv, KeyError, TRUE)
    ELSE LET guess_index == state.word_bank_index[guess]
             feedback == state.feedback_encode_table[guess_index][0]
             appended == Append(state.history, <<guess, feedback>>)
         IN  [history |-> appended, solver |-> slv, raised |-> NoError,
              consulted |-> TRUE, ret |-> <<guess, feedback>>]

\* lines 87-99 with word_bank_index.get(guess, 0) in place of [guess]
LookupAndAppend_DefaultIndex(state, slv, guess) ==
    IF state.answer \notin DOMAIN state.valid_word_index
    THEN Failure(state, slv, KeyError, TRUE)
    ELSE LET guess_index == IF guess \in DOMAIN state.word_bank_index
                            THEN state.word_bank_index[guess] ELSE 0
             answer_index == state.valid_word_index[state.answer]
             feedback == state.feedback_encode_table[guess_index][answer_index]
             appended == Append(state.history, <<guess, feedback>>)
         IN  [history |-> appended, solver |-> slv, raised |-> NoError,
              consulted |-> TRUE, ret |-> <<guess, feedback>>]

\* lines 87-99: index lookups, table lookup, append, debug line, return
LookupAndAppend(state, slv, guess) ==
    IF guess \notin DOMAIN state.word_bank_index
    THEN Failure(state, slv, KeyError, TRUE)
    ELSE IF state.answer \notin DOMAIN state.valid_word_index
    THEN Failure(state, slv, KeyError, TRUE)
    ELSE LET guess_index == state.word_bank_index[guess]
             answer_index == state.valid_word_index[state.answer]
             feedback == state.feedback_encode_table[guess_index][answer_index]
             appended == Append(state.history, <<guess, feedback>>)
         IN  IF feedback \notin DOMAIN state.feedback_decode_table
             THEN [history |-> appended, solver |-> slv,
                   raised |-> HistoryIndexError, consulted |-> TRUE, ret |-> None]
             ELSE [history |-> appended, solver |-> slv, raised |-> NoError,
                   consulted |-> TRUE, ret |-> <<guess, feedback>>]

\* lines 85-99: the turn itself, once both guards have passed
TakeTurn(state, slv) ==
    {IF g.raised # NoError
     THEN Failure(state, g.solver, g.raised, TRUE)
     ELSE LookupAndAppend(state, g.solver, g.guess) : g \in Solver_guess(slv, state)}

\* play_turn refusing a won game only
play_turn_RefusesWonOnly(state, slv) ==
    IF won(state.history)
    THEN {Failure(state, slv, TerminalError, FALSE)}
    ELSE IF state.answer = None
    THEN {Failure(state, slv, NoAnswerError, FALSE)}
    ELSE TakeTurn(state, slv)

\* play_turn refusing a game out of turns only
play_turn_RefusesFullOnly(state, slv) ==
    IF state.history # <<>> /\ turn(state.history) >= state.max_turns
    THEN {Failure(state, slv, TerminalError, FALSE)}
    ELSE IF state.answer = None
    THEN {Failure(state, slv, NoAnswerError, FALSE)}
    ELSE TakeTurn(state, slv)

\* play_turn without the "already terminated" guard
play_turn_NoTerminalGuard(state, slv) ==
    IF state.answer = None
    THEN {Failure(state, slv, NoAnswerError, FALSE)}
    ELSE TakeTurn(state, slv)

\* play_turn without the "answer is None" guard
play_turn_NoAnswerGuard(state, slv) ==
    IF terminal(state.history, state.max_turns)
    THEN {Failure(state, slv, TerminalError, FALSE)}
    ELSE TakeTurn(state, slv)

\* GameEngine.play_turn: the possible results of one call
play_turn(state, slv) ==
    IF terminal(state.history, state.max_turns)
    THEN {Failure(state, slv, TerminalError, FALSE)}
    ELSE IF state.answer = None
    THEN {Failure(state, slv, NoAnswerError, FALSE)}
    ELSE TakeTurn(state, slv)

\* reset without "self.state.history.clear()"
reset_KeepHistory(state, slv) ==
    {IF chosen.raised # NoError
     THEN [history |-> state.history, answer |-> state.answer, solver |-> slv,
           raised |-> chosen.raised]
     ELSE [history |-> state.history, answer |-> chosen.word,
           solver |-> Solver_reset(slv),
           raised |-> NoError] : chosen \in RandomUniformOracle_choose(state.valid_words)}

\* GameEngine.reset: the possible results of one call
reset(state, slv) ==
    {IF chosen.raised # NoError
     THEN [history |-> <<>>, answer |-> state.answer, solver |-> slv,
           raised |-> chosen.raised]
     ELSE [history |-> <<>>, answer |-> chosen.word, solver |-> Solver_reset(slv),
           raised |-> NoError] : chosen \in RandomUniformOracle_choose(state.valid_words)}

-----------------------------------------------------------------------------
(* Spec: a constructed engine on which a caller invokes reset, play_turn   *)
(* and run in any order.  run is a loop of calls, so it is followed step   *)
(* by step; nothing else runs while it is under way.                       *)

\* the scenario vocabulary; one with guess-only words and answers that share
\* feedback; one whose answers are not all guesses; one with no answers;
\* one with repeated lines in both word files
EngineVocabularies ==
    {<<<<apple, grape, mango>>, <<apple, grape, mango>>>>,
     <<<<cable, table, fable, sable, maple>>, <<table, fable, sable, maple>>>>,
     <<<<apple, grape>>, <<apple, mango>>>>,
     <<<<apple>>, <<>>>>,
     <<<<apple, grape, apple>>, <<grape, apple, grape>>>>}

SolverKinds ==
    {<<"RandomConsistentSolver", FALSE>>,
     <<"RandomUniformSolver", FALSE>>,
     <<"RandomUniformSolver", TRUE>>}

Call(op, error, asked, value) ==
    [op |-> op, raised |-> error, consulted |-> asked, ret |-> value]

\* GameEngine.__init__ and the constructors of the solvers
\* The index dictionaries are what the comprehension of
\* _build_index_dictionary yields for each vocabulary; how __init__ reaches
\* that function (lines 61-64 call it through self, which it does not accept)
\* and where the tables come from (cache or rebuild) are not part of Init.
Init ==
    /\ codec_pc = "idle"
    /\ CodecIdle
    /\ \E v \in EngineVocabularies :
          /\ word_bank = v[1]
          /\ valid_words = v[2]
          /\ word_bank_index = _build_index_dictionary(v[1])
          /\ valid_word_index = _build_index_dictionary(v[2])
          /\ feedback_encode_table = build_feedback_encode_table(v[1], v[2])
    /\ feedback_decode_table = build_feedback_decode_table
    /\ cache_file = None
    /\ history = <<>>
    /\ answer = None
    /\ max_turns \in 1..MaxTurns
    /\ observed = None
    /\ \E k \in SolverKinds :
          /\ solver_kind = k[1]
          /\ choose_from_answers = k[2]
    /\ candidates = None
    /\ processed_turns = 0
    /\ pc = "idle"
    /\ last_call = Call("__init__", NoError, FALSE, None)

SolverBecomes(slv) ==
    /\ candidates' = slv.candidates
    /\ processed_turns' = slv._processed_turns
    /\ UNCHANGED <<solver_kind, choose_from_answers>>

Frame ==
    UNCHANGED <<codec_vars, codec_pc, vocab_vars, table_vars, cache_file, max_turns, observed>>

\* a caller invokes engine.reset()
Reset ==
    /\ pc = "idle"
    /\ \E r \in reset(GameState, Solver) :
          /\ history' = r.history
          /\ answer' = r.answer
          /\ SolverBecomes(r.solver)
          /\ last_call' = Call("reset", r.raised, FALSE, None)
    /\ UNCHANGED pc
    /\ Frame

\* a caller invokes engine.play_turn()
PlayTurn ==
    /\ pc = "idle"
    /\ \E r \in play_turn(GameState, Solver) :
          /\ history' = r.history
          /\ SolverBecomes(r.solver)
          /\ last_call' = Call("play_turn", r.raised, r.consulted, r.ret)
    /\ UNCHANGED <<answer, pc>>
    /\ Frame

\* a caller invokes engine.run(): line 111, self.reset()
RunReset ==
    /\ pc = "idle"
    /\ \E r \in reset(GameState, Solver) :
          /\ history' = r.history
          /\ answer' = r.answer
          /\ SolverBecomes(r.solver)
          /\ IF r.raised # NoError
             THEN /\ pc' = "idle"
                  /\ last_call' = Call("run", r.raised, FALSE, None)
             ELSE /\ pc' = "run"
                  /\ last_call' = Call("run.reset", NoError, FALSE, None)
    /\ Frame

\* run, lines 114-115: while not self.state.terminal: self.play_turn()
RunPlayTurn ==
    /\ pc = "run"
    /\ ~terminal(history, max_turns)
    /\ \E r \in play_turn(GameState, Solver) :
          /\ history' = r.history
          /\ SolverBecomes(r.solver)
          /\ IF r.raised # NoError
             THEN /\ pc' = "idle"
                  /\ last_call' = Call("run", r.raised, r.consulted, None)
             ELSE /\ pc' = "run"
                  /\ last_call' = Call("run.play_turn", NoError, r.consulted, r.ret)
    /\ UNCHANGED answer
    /\ Frame

\* run, lines 117-122: the loop has ended, return self.state
RunReturn ==
    /\ pc = "run"
    /\ terminal(history, max_turns)
    /\ pc' = "idle"
    /\ last_call' = Call("run", NoError, FALSE, <<"state">>)
    /\ UNCHANGED <<history, answer, solver_vars>>
    /\ Frame

Next == Reset \/ PlayTurn \/ RunReset \/ RunPlayTurn \/ RunReturn

Spec == Init /\ [][Next]_vars

TypeOK ==
    /\ history \in Seq(Range(word_bank) \X (0..(Uint8Modulus - 1)))
    /\ answer = None \/ answer \in Range(valid_words)
    /\ candidates = None \/ Range(candidates[1]) \subseteq Range(valid_words)
    /\ processed_turns \in 0..MaxTurns
    /\ pc \in {"idle", "run"}

-----------------------------------------------------------------------------
(* Claims about the engine.                                                *)

SolverUnchanged ==
    /\ candidates' = candidates
    /\ processed_turns' = processed_turns

\* C7: terminal is absorbing: once the game state is terminal, every further
\* play_turn call raises an error, does not consult the solver, and leaves
\* history, answer and solver state unchanged; the state stays terminal until
\* reset() is called (directly or as the first statement of run).
C7_TerminalAbsorbing ==
    [][terminal(history, max_turns) =>
          /\ last_call'.op = "play_turn" =>
                /\ last_call'.raised # NoError
                /\ ~last_call'.consulted
                /\ history' = history
                /\ answer' = answer
                /\ SolverUnchanged
          /\ ~terminal(history', max_turns) =>
                last_call'.op \in {"reset", "run.reset", "run"}]_vars

\* a play_turn refused after a win that came before the turn limit
C7_Witness ==
    /\ last_call.op = "play_turn"
    /\ last_call.raised = TerminalError
    /\ won(history)
    /\ Len(history) < max_turns

\* C8: play_turn on a freshly constructed engine on which reset() was never
\* called (answer None, history empty) raises an error that differs from the
\* "already terminal" error, leaves history empty and does not consult the
\* solver.
C8_NoAnswerError ==
    [][(answer = None /\ history = <<>> /\ last_call'.op = "play_turn") =>
          /\ last_call'.raised # NoError
          /\ last_call'.raised # TerminalError
          /\ ~last_call'.consulted
          /\ history' = <<>>
          /\ SolverUnchanged]_vars

C8_Witness ==
    /\ answer = None
    /\ history = <<>>
    /\ last_call.op = "play_turn"
    /\ last_call.raised = NoAnswerError

\* C9: a successful play_turn on an in-progress game appends exactly one entry
\* (guess, table[index(guess)][index(answer)]) at the end of history and
\* returns that pair; the earlier entries, the hidden answer, max_turns and
\* both vocabularies are unchanged.
C9_TurnAppendsOne ==
    [][(last_call'.op \in {"play_turn", "run.play_turn"}
            /\ last_call'.raised = NoError) =>
          /\ ~terminal(history, max_turns)
          /\ Len(history') = Len(history) + 1
          /\ SubSeq(history', 1, Len(history)) = history
          /\ Last(history') = last_call'.ret
          /\ last_call'.ret[2] =
                feedback_encode_table[word_bank_index[last_call'.ret[1]]]
                                     [valid_word_index[answer]]
          /\ answer' = answer
          /\ max_turns' = max_turns
          /\ word_bank' = word_bank
          /\ valid_words' = valid_words]_vars

\* a second turn whose entry differs from the first
C9_Witness ==
    /\ last_call.op = "play_turn"
    /\ last_call.raised = NoError
    /\ Len(history) = 2
    /\ history[2] = last_call.ret
    /\ history[1] # history[2]

\* C10: in a game driven by the engine with RandomConsistentSolver, the hidden
\* answer is a member of the solver's candidate set after every call to
\* guess.
C10_AnswerNeverPruned ==
    (solver_kind = "RandomConsistentSolver" /\ candidates # None) =>
        answer \in Range(candidates[1])

\* a filtering step removed some words and kept more than the answer
C10_Witness ==
    /\ solver_kind = "RandomConsistentSolver"
    /\ candidates # None
    /\ processed_turns >= 1
    /\ Len(candidates[1]) >= 2
    /\ Len(candidates[1]) < Len(valid_words)
    /\ answer \in Range(candidates[1])

-----------------------------------------------------------------------------
(* SpecSolver: a RandomConsistentSolver used directly through the Solver   *)
(* interface.  The caller owns the GameState: it appends entries to the    *)
(* history, with feedback codes of its own choice, between calls to guess  *)
(* and reset.                                                              *)

SolverVocabularies ==
    {<<<<apple, grape, mango>>, <<apple, grape, mango>>>>,
     <<<<cable, table>>, <<table, fable, sable>>>>,
     <<<<apple>>, <<>>>>}

\* the codes a caller may record for a guess: those of the table row of
\* the guess, and 0
FeedbackChoices(guess) ==
    {feedback_encode_table[word_bank_index[guess]][a] :
        a \in DOMAIN feedback_encode_table[word_bank_index[guess]]} \cup {0}

InitSolver ==
    /\ codec_pc = "idle"
    /\ CodecIdle
    /\ \E v \in SolverVocabularies :
          /\ word_bank = v[1]
          /\ valid_words = v[2]
          /\ word_bank_index = _build_index_dictionary(v[1])
          /\ valid_word_index = _build_index_dictionary(v[2])
          /\ feedback_encode_table = build_feedback_encode_table(v[1], v[2])
    /\ feedback_decode_table = build_feedback_decode_table
    /\ cache_file = None
    /\ history = <<>>
    /\ answer = None
    /\ max_turns = 6
    /\ observed = None
    /\ solver_kind = "RandomConsistentSolver"
    /\ choose_from_answers = FALSE
    /\ candidates = None
    /\ processed_turns = 0
    /\ pc = "idle"
    /\ last_call = Call("__init__", NoError, FALSE, None)

SolverFrame ==
    UNCHANGED <<codec_vars, codec_pc, vocab_vars, table_vars, cache_file, answer, max_turns,
                observed, pc>>

\* the caller records a turn: state.history.append((guess, feedback))
AppendEntry ==
    /\ Len(history) < MaxSolverHistory
    /\ \E guess \in Range(word_bank) :
          \E feedback \in FeedbackChoices(guess) :
              history' = Append(history, <<guess, feedback>>)
    /\ last_call' = Call("append", NoError, FALSE, None)
    /\ UNCHANGED solver_vars
    /\ SolverFrame

\* the caller invokes solver.guess(state)
SolverGuess ==
    /\ \E r \in RandomConsistentSolver_guess(Solver, GameState) :
          /\ SolverBecomes(r.solver)
          /\ last_call' = Call("guess", r.raised, TRUE, r.guess)
    /\ UNCHANGED history
    /\ SolverFrame

\* the caller invokes solver.reset()
SolverReset ==
    /\ SolverBecomes(RandomConsistentSolver_reset(Solver))
    /\ last_call' = Call("solver.reset", NoError, FALSE, None)
    /\ UNCHANGED history
    /\ SolverFrame

NextSolver == AppendEntry \/ SolverGuess \/ SolverReset

SpecSolver == InitSolver /\ [][NextSolver]_vars

\* C11: every word returned by RandomConsistentSolver.guess is a member of
\* the candidate set as it stands after folding in the latest feedback; on the
\* first call after reset, with an empty history, the candidate set is the
\* full valid_words list.
C11_GuessFromCandidates ==
    [][(last_call'.op = "guess" /\ last_call'.raised = NoError) =>
          /\ candidates' # None
          /\ last_call'.ret \in Range(candidates'[1])
          /\ (candidates = None /\ processed_turns = 0 /\ history = <<>>) =>
                candidates'[1] = valid_words]_vars

\* a guess returned from a candidate list that a filtering step has cut down
C11_Witness ==
    /\ last_call.op = "guess"
    /\ last_call.raised = NoError
    /\ processed_turns >= 1
    /\ Len(candidates[1]) < Len(valid_words)
    /\ last_call.ret \in Range(candidates[1])


\* C12: between two resets of RandomConsistentSolver the candidate set after
\* each guess call is a subset of the candidate set after the previous guess
\* call (it never gains a word), and it is always a subset of valid_words.
C12_CandidatesShrink ==
    /\ [][(candidates # None /\ candidates' # None) =>
             Range(candidates'[1]) \subseteq Range(candidates[1])]_vars
    /\ [](candidates # None => Range(candidates[1]) \subseteq Range(valid_words))

\* two entries folded in, the second of which removed a word the first kept
C12_Witness ==
    /\ last_call.op = "guess"
    /\ processed_turns = 2
    /\ Len(history) = 2
    /\ history[1][1] = cable
    /\ history[1][2] = 240
    /\ history[2][1] = table
    /\ history[2][2] = 240
    /\ candidates = Some(<<fable, sable>>)

IsIndexError(error) == error \in {ChoiceError, HistoryIndexError}

\* C13: when guess is called and filtering leaves the candidate set empty
\* (feedback inconsistent with every valid word, or valid_words empty), the
\* call surfaces an explicit empty-candidate-set error, not an out-of-range or
\* index access failure.
C13_ExplicitEmptyCandidatesError ==
    (last_call.op = "guess" /\ candidates # None /\ candidates[1] = <<>>) =>
        /\ last_call.raised # NoError
        /\ ~IsIndexError(last_call.raised)


-----------------------------------------------------------------------------
(* GameEngine.reset and GameEngine.run, checked under Spec                 *)

ResetOps == {"reset", "run.reset"}

TurnOps == {"play_turn", "run.play_turn", "run"}

Guesses(hist) == {hist[i][1] : i \in DOMAIN hist}

\* C14: a reset that returns leaves the history empty, the answer a member
\* of valid_words, the game not terminal and the consistent solver with no
\* candidate list and a processed counter of 0, whatever the state before;
\* the guess asked for right after it starts from the whole of valid_words.
C14_ResetStartsFresh ==
    [][/\ (last_call'.op \in ResetOps /\ last_call'.raised = NoError) =>
             /\ history' = <<>>
             /\ answer' \in Range(valid_words)
             /\ ~terminal(history', max_turns)
             /\ solver_kind = "RandomConsistentSolver" =>
                   (candidates' = None /\ processed_turns' = 0)
       /\ (/\ last_call.op \in ResetOps
           /\ last_call.raised = NoError
           /\ last_call'.op \in TurnOps
           /\ last_call'.consulted
           /\ solver_kind = "RandomConsistentSolver") =>
             candidates' = Some(valid_words)]_vars

\* a reset of a consistent solver that had pruned its candidates in the
\* game before
C14_Witness ==
    /\ last_call.op = "reset"
    /\ last_call.raised = NoError
    /\ solver_kind = "RandomConsistentSolver"
    /\ Len(valid_words) = 4
    /\ history = <<>>
    /\ answer = maple
    /\ candidates = None
    /\ processed_turns = 0

\* C15: run starts with a reset that empties the history, every later step
\* of it is one play_turn that appends its returned pair, and the state it
\* returns is terminal with between 1 and max_turns entries, each of them
\* the feedback of its guess against the answer of this game.
C15_RunPlaysOneFreshGame ==
    [][/\ last_call'.op = "run.reset" =>
             /\ pc = "idle"
             /\ pc' = "run"
             /\ history' = <<>>
       /\ (pc = "run" /\ pc' = "run") =>
             /\ ~terminal(history, max_turns)
             /\ last_call'.op = "run.play_turn"
             /\ history' = Append(history, last_call'.ret)
             /\ answer' = answer
       /\ (last_call'.op = "run" /\ last_call'.raised = NoError) =>
             /\ pc = "run"
             /\ pc' = "idle"
             /\ history' = history
             /\ terminal(history', max_turns)
             /\ Len(history') >= 1
             /\ Len(history') <= max_turns
             /\ \A i \in DOMAIN history' :
                   history'[i][2] =
                       feedback_encode_table[word_bank_index[history'[i][1]]]
                                            [valid_word_index[answer']]]_vars

\* run has returned a lost two-turn game
C15_Witness ==
    /\ last_call.op = "run"
    /\ last_call.raised = NoError
    /\ pc = "idle"
    /\ max_turns = 2
    /\ Len(history) = 2
    /\ ~won(history)
    /\ terminal(history, max_turns)


\* run keeps executing once called: its next statement is always taken
SpecLive == Spec /\ WF_vars(RunPlayTurn) /\ WF_vars(RunReturn)

\* C16: with a solver that only returns words of word_bank and max_turns >= 1,
\* a run that has been started ends; while it is under way the history never
\* exceeds max_turns entries and each loop step is one play_turn call that
\* adds one entry, so the loop makes at most max_turns calls.
C16_RunTerminates ==
    /\ [](pc = "run" => Len(history) <= max_turns)
    /\ [][(pc = "run" /\ pc' = "run") =>
             /\ last_call'.op = "run.play_turn"
             /\ Len(history') = Len(history) + 1]_vars
    /\ (pc = "run") ~> (pc = "idle")

\* a run in which play_turn has been called max_turns times
C16_Witness ==
    /\ pc = "run"
    /\ max_turns = MaxTurns
    /\ Len(history) = max_turns
    /\ last_call.op = "run.play_turn"
    /\ solver_kind = "RandomUniformSolver"
    /\ ~won(history)


ScenarioVocabulary == <<apple, grape, mango>>

\* C17: when the first guess of a game is the answer, the history is the
\* single pair (answer, 242), the state is terminal and won, and a run
\* returns after that one turn; in particular with vocabulary apple, grape,
\* mango, max_turns 3 and answer apple, a first guess of apple gives the
\* history [(apple, 242)].
C17_FirstGuessWins ==
    /\ (history # <<>> /\ history[1][1] = answer) =>
          /\ history = <<<<answer, WIN_FEEDBACK>>>>
          /\ terminal(history, max_turns)
          /\ won(history)
          /\ pc = "run" => ~ENABLED RunPlayTurn
    /\ (/\ word_bank = ScenarioVocabulary
        /\ valid_words = ScenarioVocabulary
        /\ max_turns = 3
        /\ answer = apple
        /\ history # <<>>
        /\ history[1][1] = apple) =>
          /\ history = <<<<apple, 242>>>>
          /\ Len(history) = 1
          /\ terminal(history, max_turns)
          /\ won(history)

\* the scenario: run has returned after the solver's first guess, apple
C17_Witness ==
    /\ word_bank = ScenarioVocabulary
    /\ valid_words = ScenarioVocabulary
    /\ max_turns = 3
    /\ answer = apple
    /\ last_call.op = "run"
    /\ last_call.raised = NoError
    /\ history = <<<<apple, 242>>>>
    /\ solver_kind = "RandomUniformSolver"

\* C18: a game that has ended without any guess equal to the answer has
\* exactly max_turns turns and is lost, and a run in which the answer is
\* never guessed goes on until then; in particular with vocabulary apple,
\* grape, mango, max_turns 3 and answer apple, guessing mango every time
\* ends after exactly 3 turns, not won.
C18_NeverGuessingLoses ==
    /\ (terminal(history, max_turns) /\ answer \notin Guesses(history)) =>
          /\ Len(history) = max_turns
          /\ ~won(history)
    /\ (/\ pc = "run"
        /\ answer \notin Guesses(history)
        /\ Len(history) < max_turns) => ~ENABLED RunReturn
    /\ (/\ word_bank = ScenarioVocabulary
        /\ valid_words = ScenarioVocabulary
        /\ max_turns = 3
        /\ answer = apple
        /\ Guesses(history) = {mango}) =>
          /\ \A i \in DOMAIN history : history[i] = <<mango, 3>>
          /\ terminal(history, max_turns) <=> Len(history) = 3
          /\ ~won(history)

\* the scenario: run has returned after three guesses of mango
C18_Witness ==
    /\ word_bank = ScenarioVocabulary
    /\ valid_words = ScenarioVocabulary
    /\ max_turns = 3
    /\ answer = apple
    /\ last_call.op = "run"
    /\ last_call.raised = NoError
    /\ history = <<<<mango, 3>>, <<mango, 3>>, <<mango, 3>>>>
    /\ solver_kind = "RandomUniformSolver"


\* C19: RandomUniformOracle.choose raises its ValueError on an empty
\* valid_words and otherwise returns a member; with an empty valid_words every
\* reset and run ends with that error, the solver is never asked for a guess
\* and no turn is ever played.
C19_EmptyAnswersRaise ==
    /\ \A chosen \in RandomUniformOracle_choose(valid_words) :
          IF valid_words = <<>>
          THEN chosen.raised = EmptyListError
          ELSE chosen.raised = NoError /\ chosen.word \in Range(valid_words)
    /\ valid_words = <<>> =>
          /\ last_call.op \in {"reset", "run"} => last_call.raised = EmptyListError
          /\ last_call.op \notin {"run.reset", "run.play_turn"}
          /\ ~last_call.consulted
          /\ history = <<>>
          /\ answer = None
          /\ candidates = None
          /\ pc = "idle"
    /\ (valid_words # <<>> /\ last_call.op \in ResetOps) =>
          /\ last_call.raised = NoError
          /\ answer \in Range(valid_words)

\* run has raised the oracle's error on an empty valid_words
C19_Witness ==
    /\ valid_words = <<>>
    /\ last_call.op = "run"
    /\ last_call.raised = EmptyListError
    /\ history = <<>>
    /\ pc = "idle"

\* C20: a guess that is not a key of word_bank_index makes play_turn raise
\* with the history as it was; a turn that raises, direct or inside run,
\* changes nothing of the game state, and every guess in the history is a key
\* of word_bank_index.
C20_UnknownGuessRaisesFirst ==
    /\ [](\A g \in Solver_guess(Solver, GameState) :
             (/\ answer # None
              /\ ~terminal(history, max_turns)
              /\ g.raised = NoError
              /\ g.guess \notin DOMAIN word_bank_index) =>
                 LET r == LookupAndAppend(GameState, g.solver, g.guess)
                 IN  /\ r.raised # NoError
                     /\ r.history = history
                     /\ r.ret = None)
    /\ [](Guesses(history) \subseteq DOMAIN word_bank_index)
    /\ [][(last_call'.op \in TurnOps /\ last_call'.raised # NoError) =>
             UNCHANGED <<history, answer, max_turns, vocab_vars, table_vars>>]_vars

\* a turn in mid-game has raised on a guess outside word_bank
C20_Witness ==
    /\ last_call.op = "play_turn"
    /\ last_call.raised = KeyError
    /\ last_call.consulted
    /\ mango \notin DOMAIN word_bank_index
    /\ history # <<>>
    /\ ~terminal(history, max_turns)


-----------------------------------------------------------------------------
(* SpecCache: GameEngine._build_feedback_tables against every content of   *)
(* the cache file.  A pickled Python object is a record: None, an int, or  *)
(* a tuple of items.  Writing the cache file is taken to succeed.          *)

PickledNone == [kind |-> "None", items |-> <<>>]

PickledInt == [kind |-> "int", items |-> <<>>]

PickledTuple(items) == [kind |-> "tuple", items |-> items]

\* no file, a file pickle.load fails on, a file holding an object
NoFile == [exists |-> FALSE, loads |-> FALSE, object |-> PickledNone]

GarbageFile == [exists |-> TRUE, loads |-> FALSE, object |-> PickledNone]

FileOf(object) == [exists |-> TRUE, loads |-> TRUE, object |-> object]

UnpackTypeError == "TypeError: cannot unpack non-iterable int object"

UnpackTooMany == "ValueError: too many values to unpack (expected 2)"

UnpackNotEnough == "ValueError: not enough values to unpack"

\* load_from_cache: the object of the file, None when the file is absent
\* or pickle.load raises
load_from_cache(file) ==
    IF file.exists
    THEN IF file.loads THEN file.object ELSE PickledNone
    ELSE PickledNone

\* save_to_cache: the file after the dump
save_to_cache(file, data) == FileOf(data)

\* the tuple assignment of lines 161-163: a, b = cached_tables
Unpack(object) ==
    IF object.kind # "tuple" THEN [raised |-> UnpackTypeError, items |-> <<>>]
    ELSE IF Len(object.items) > 2 THEN [raised |-> UnpackTooMany, items |-> <<>>]
    ELSE IF Len(object.items) < 2 THEN [raised |-> UnpackNotEnough, items |-> <<>>]
    ELSE [raised |-> NoError, items |-> object.items]

\* GameEngine._build_feedback_tables
_build_feedback_tables(state, file) ==
    LET cached_tables == load_from_cache(file)
    IN  IF cached_tables.kind # "None"
        THEN LET unpacked == Unpack(cached_tables)
             IN  IF unpacked.raised # NoError
                 THEN [feedback_encode_table |-> state.feedback_encode_table,
                       feedback_decode_table |-> state.feedback_decode_table,
                       cache_file |-> file, raised |-> unpacked.raised]
                 ELSE [feedback_encode_table |-> unpacked.items[1],
                       feedback_decode_table |-> unpacked.items[2],
                       cache_file |-> file, raised |-> NoError]
        ELSE LET encode == build_feedback_encode_table(state.word_bank,
                                                       state.valid_words)
                 decode == build_feedback_decode_table
             IN  [feedback_encode_table |-> encode,
                  feedback_decode_table |-> decode,
                  cache_file |-> save_to_cache(file, PickledTuple(<<encode, decode>>)),
                  raised |-> NoError]

CacheWords == {apple, grape}

CacheVocabularies ==
    {<<bank, answers>> : bank \in SeqsUpTo(CacheWords, MaxVocabLen),
                         answers \in SeqsUpTo(CacheWords, MaxVocabLen)}

\* the pair save_to_cache stores for a vocabulary
TablePair(bank, answers) ==
    <<build_feedback_encode_table(bank, answers), build_feedback_decode_table>>

\* a pair whose first item is not the encode table of the vocabulary
DamagedPair(bank, answers) ==
    <<[g \in 0..Len(bank) |-> [a \in 0..Len(answers) |-> 0]],
      build_feedback_decode_table>>

CacheFiles(bank, answers) ==
    {NoFile, GarbageFile, FileOf(PickledNone), FileOf(PickledInt),
     FileOf(PickledTuple(<<0>>)), FileOf(PickledTuple(<<0, 0, 0>>)),
     FileOf(PickledTuple(TablePair(bank, answers))),
     FileOf(PickledTuple(DamagedPair(bank, answers)))}

\* __init__ up to line 64, before the tables are built
InitCache ==
    /\ codec_pc = "idle"
    /\ CodecIdle
    /\ \E v \in CacheVocabularies :
          /\ word_bank = v[1]
          /\ valid_words = v[2]
          /\ word_bank_index = _build_index_dictionary(v[1])
          /\ valid_word_index = _build_index_dictionary(v[2])
          /\ cache_file \in CacheFiles(v[1], v[2])
    /\ feedback_encode_table = <<>>
    /\ feedback_decode_table = <<>>
    /\ history = <<>>
    /\ answer = None
    /\ max_turns = 6
    /\ observed = None
    /\ solver_kind = "none"
    /\ choose_from_answers = FALSE
    /\ candidates = None
    /\ processed_turns = 0
    /\ pc = "idle"
    /\ last_call = Call("__init__", NoError, FALSE, None)

\* __init__ line 67 of an engine built on these word lists and cache folder
BuildFeedbackTables ==
    /\ LET r == _build_feedback_tables(GameState, cache_file)
       IN  /\ feedback_encode_table' = r.feedback_encode_table
           /\ feedback_decode_table' = r.feedback_decode_table
           /\ cache_file' = r.cache_file
           /\ last_call' = Call("_build_feedback_tables", r.raised, FALSE, None)
    /\ UNCHANGED <<codec_vars, codec_pc, vocab_vars, game_vars, observed,
                   solver_vars, pc>>

NextCache == BuildFeedbackTables

SpecCache == InitCache /\ [][NextCache]_vars

ValidEntry(file) ==
    /\ file.exists
    /\ file.loads
    /\ file.object = PickledTuple(TablePair(word_bank, valid_words))

\* C21: building the tables takes the stored pair on a hit without writing
\* the file, builds and saves both tables on a miss, and on a cache file
\* that is unreadable or holds anything but the table pair rebuilds and
\* saves as on a miss; no error leaves the call.
C21_CacheDegradesToRebuild ==
    [][last_call'.op = "_build_feedback_tables" =>
          /\ last_call'.raised = NoError
          /\ feedback_encode_table'
                = build_feedback_encode_table(word_bank, valid_words)
          /\ feedback_decode_table' = build_feedback_decode_table
          /\ ValidEntry(cache_file')
          /\ ValidEntry(cache_file) => cache_file' = cache_file]_vars


-----------------------------------------------------------------------------
(* SpecCalls: the calls of Spec, and between them a caller that invokes    *)
(* the solver of the engine directly on the engine's state.                *)

\* solver.guess(engine.state) outside any engine call
DirectGuess ==
    /\ pc = "idle"
    /\ \E r \in Solver_guess(Solver, GameState) :
          /\ SolverBecomes(r.solver)
          /\ last_call' = Call("guess", r.raised, TRUE, r.guess)
    /\ UNCHANGED history
    /\ SolverFrame

\* solver.reset() outside any engine call
DirectReset ==
    /\ pc = "idle"
    /\ SolverBecomes(Solver_reset(Solver))
    /\ last_call' = Call("solver.reset", NoError, FALSE, None)
    /\ UNCHANGED history
    /\ SolverFrame

NextCalls ==
    \/ Reset \/ PlayTurn \/ RunReset \/ RunPlayTurn \/ RunReturn
    \/ DirectGuess \/ DirectReset

SpecCalls == Init /\ [][NextCalls]_vars

IndexOfList(index, word_list) ==
    /\ DOMAIN index = Range(word_list)
    /\ \A w \in Range(word_list) :
          /\ index[w] \in 0..(Len(word_list) - 1)
          /\ At(word_list, index[w]) = w

Answers == Range(valid_words) \cup Range(word_bank) \cup {None}

WithAnswer(a) == [GameState EXCEPT !.answer = a]

\* C23: in every state, replacing the hidden answer by any other value and
\* leaving the history, vocabularies, tables and the solver as they are gives
\* the same results of RandomConsistentSolver.guess and of
\* RandomUniformSolver.guess: the same list to draw from, hence the same word
\* for the same draw, the same error if any and the same solver state after.
C23_AnswerHiddenFromSolvers ==
    \A a \in Answers :
        /\ RandomConsistentSolver_guess(Solver, WithAnswer(a))
              = RandomConsistentSolver_guess(Solver, GameState)
        /\ RandomUniformSolver_guess(Solver, WithAnswer(a))
              = RandomUniformSolver_guess(Solver, GameState)
        /\ Solver_guess(Solver, WithAnswer(a)) = Solver_guess(Solver, GameState)

\* a guess was asked for in mid-game, with several answers still possible
C23_Witness ==
    /\ last_call.op \in {"guess", "play_turn"}
    /\ last_call.raised = NoError
    /\ last_call.consulted
    /\ answer # None
    /\ history # <<>>
    /\ solver_kind = "RandomConsistentSolver"
    /\ candidates # None
    /\ Len(candidates[1]) >= 2
    /\ Len(candidates[1]) < Len(valid_words)


-----------------------------------------------------------------------------
(* The fold of RandomConsistentSolver, checked under SpecSolver (a caller  *)
(* that may append several entries between two guesses) and under Spec.    *)

\* the code the table holds for a guess against a word of valid_words
TableCode(guess, word) ==
    feedback_encode_table[word_bank_index[guess]][valid_word_index[word]]

\* the words of a list that an entry of the history is consistent with
ConsistentWith(words, entry) ==
    LET Agrees(word) == TableCode(entry[1], word) = entry[2]
    IN  SelectSeq(words, Agrees)

\* the list a guess call starts from
StartingCandidates == IF candidates = None THEN valid_words ELSE candidates[1]

ConsistentWithAll(hist) ==
    LET Agrees(word) ==
            \A i \in DOMAIN hist : TableCode(hist[i][1], word) = hist[i][2]
    IN  SelectSeq(valid_words, Agrees)

\* C25: in a game driven by the engine, after every guess call of the
\* consistent solver the candidate list is the list of the valid words that
\* agree with every entry of the history the call was given.
C25_CandidatesMatchWholeHistory ==
    [][(/\ last_call'.op \in TurnOps
        /\ last_call'.consulted
        /\ solver_kind = "RandomConsistentSolver") =>
          /\ candidates' = Some(ConsistentWithAll(history))
          /\ processed_turns' = Len(history)]_vars

\* the third guess of a game: the two entries before it leave one candidate,
\* the later entry alone would leave more
C25_Witness ==
    /\ last_call.op \in {"play_turn", "run.play_turn"}
    /\ last_call.raised = NoError
    /\ solver_kind = "RandomConsistentSolver"
    /\ Len(history) = 3
    /\ candidates = Some(<<sable>>)
    /\ ConsistentWith(valid_words, history[2]) # <<sable>>
    /\ ConsistentWithAll(SubSeq(history, 1, 2)) = <<sable>>


-----------------------------------------------------------------------------
(* The width of the table cells, checked under SpecTable.                  *)

\* C26: every code _encode_feedback returns for a guess and an answer of the
\* vocabularies lies in 0..242, below the 256 values of a table cell, so the
\* cell holds the code itself; where the guess is the answer the cell holds
\* 242 and a history ending with that cell is won and terminal.
C26_CodesFitTheCell ==
    codec_pc = "built" =>
        \A g \in 0..(Len(word_bank) - 1) :
            \A a \in 0..(Len(valid_words) - 1) :
                LET code == _encode_feedback(At(word_bank, g), At(valid_words, a))
                    cell == feedback_encode_table[g][a]
                    hist == <<<<At(word_bank, g), cell>>>>
                IN  /\ code \in 0..(NumFeedbacks - 1)
                    /\ code < Uint8Modulus
                    /\ cell = code
                    /\ At(word_bank, g) = At(valid_words, a) =>
                          /\ cell = WIN_FEEDBACK
                          /\ won(hist)
                          /\ terminal(hist, MaxTurns)

\* a built table holding the win code and a code that needs the eighth bit
C26_Witness ==
    /\ codec_pc = "built"
    /\ word_bank = <<sassy, silly>>
    /\ valid_words = <<silly>>
    /\ feedback_encode_table[1][0] = WIN_FEEDBACK
    /\ feedback_encode_table[0][0] \in 128..(WIN_FEEDBACK - 1)


-----------------------------------------------------------------------------
(* Invariants of the game state, checked under Spec.                       *)

\* C27: every entry (g, f) of the history has f = _encode_feedback(g, answer)
\* for the current answer; the answer changes only in a reset, which leaves
\* the history empty, so no entry outlives the answer it was scored against.
C27_HistoryScoredAgainstAnswer ==
    /\ [](\A i \in DOMAIN history :
             history[i][2] = _encode_feedback(history[i][1], answer))
    /\ [][answer' # answer =>
             /\ last_call'.op \in ResetOps
             /\ history' = <<>>]_vars
    /\ [][(last_call'.op \in ResetOps \/ (last_call'.op = "run" /\ pc = "idle")) =>
             history' = <<>>]_vars

\* a second turn of a game, both entries scored against the answer table
C27_Witness ==
    /\ answer = table
    /\ last_call.op = "play_turn"
    /\ last_call.raised = NoError
    /\ Len(history) = 2
    /\ history[1] = <<maple, _encode_feedback(maple, table)>>
    /\ history[2] = <<cable, _encode_feedback(cable, table)>>
    /\ history[1][2] # history[2][2]


\* C28: the history never holds more than max_turns entries, so
\* remaining_turns, max_turns - len(history), is never negative.
C28_HistoryWithinLimit ==
    /\ Len(history) <= max_turns
    /\ turn(history) <= max_turns
    /\ remaining_turns(history, max_turns) >= 0
    /\ remaining_turns(history, max_turns) = max_turns - Len(history)

\* a lost game that used every turn
C28_Witness ==
    /\ max_turns = MaxTurns
    /\ Len(history) = max_turns
    /\ remaining_turns(history, max_turns) = 0
    /\ ~won(history)
    /\ last_call.op = "play_turn"
    /\ last_call.raised = NoError

\* C29: the code 242 stands in the history only as its last entry, hence at
\* most once; the game is won exactly when the last guess is the hidden
\* answer, and no guess before the last is the hidden answer.
C29_WinCodeOnlyLast ==
    /\ \A i \in DOMAIN history :
          /\ history[i][2] = WIN_FEEDBACK => i = Len(history)
          /\ history[i][1] = answer => i = Len(history)
    /\ Cardinality({i \in DOMAIN history : history[i][2] = WIN_FEEDBACK}) <= 1
    /\ won(history) <=> (history # <<>> /\ Last(history)[1] = answer)

\* a game won at its last allowed turn after misses
C29_Witness ==
    /\ max_turns = MaxTurns
    /\ Len(history) = max_turns
    /\ won(history)
    /\ history[max_turns] = <<answer, WIN_FEEDBACK>>
    /\ \A i \in 1..(max_turns - 1) : history[i][2] # WIN_FEEDBACK


-----------------------------------------------------------------------------
(* The consistent solver in a game of the engine, checked under SpecLive.  *)

Consistent == solver_kind = "RandomConsistentSolver"

====
